---------------------------- MODULE Spec2Model ----------------------------
(***************************************************************************)
(* A model of the resume matcher of src/main.py: the text normalizer, the  *)
(* confidence tiers, the /matcher request handler with the upload folder   *)
(* it shares with the / (index) handler, and the scoring and ranking it    *)
(* does with a TF-IDF vectorizer and cosine similarity.                    *)
(*                                                                         *)
(* A text is a sequence of characters; a character is a string.  ASCII     *)
(* characters stand for themselves; "EACUTE", "NBSP" and "BULLET" name the *)
(* non-ASCII characters U+00E9, U+00A0 and U+2022.                         *)
(***************************************************************************)
EXTENDS Integers, Sequences, FiniteSets, TLC

VARIABLES
    fs,          \* the upload folder: filename -> content, or NoFile
    req,         \* the /matcher requests in flight, by request id
    idx,         \* the / (index) request
    norm_in,     \* normalizer run: the input text
    norm_out,    \* normalizer run: normalize_text(norm_in), once applied
    norm_again,  \* normalizer run: normalize_text(norm_out), once applied
    norm_pc,     \* normalizer run: "start", "once", "twice"
    tier_in,     \* tier run: the score, in hundredths
    tier_out     \* tier run: get_confidence_tier(tier_in), once applied

vars == <<fs, req, idx, norm_in, norm_out, norm_again, norm_pc, tier_in, tier_out>>

\* Python's None where a str is expected: a value no text equals (no text
\* holds the element "None").
None == <<"None">>

-----------------------------------------------------------------------------
(* Bounds *)

MaxLen == 6        \* longest text given to the normalizer
MaxScore == 100    \* largest score (whole points) given to the tiers
MaxFiles == 3      \* longest batch drawn from the whole catalogue
MaxLong == 6       \* length of the long batches, drawn from two uploads

-----------------------------------------------------------------------------
(* Characters *)

\* The characters of the texts given to the normalizer.
Alphabet == {"w", ".", "h", "t", "p", "W", " ", "-", "EACUTE"}

NonAscii == {"EACUTE", "NBSP", "BULLET"}

\* Python's \s on str, among the characters used here: ASCII whitespace and
\* the Unicode spaces.
Whitespace == {" ", "\n", "\r", "\t", "NBSP"}

Newlines == {"\n", "\r"}

\* The character class [\-\*•–—:] of line 65.
Replaced == {"-", "*", "BULLET", ":"}

Upper == [W |-> "w", G |-> "g", D |-> "d", T |-> "t", H |-> "h", P |-> "p"]

\* str.lower() on one character.
Lower(c) == IF c \in DOMAIN Upper THEN Upper[c] ELSE c

-----------------------------------------------------------------------------
(* normalize_text, src/main.py:59-68 *)

RECURSIVE DropNonSpace(_)
\* The rest of s after its leading run of non-whitespace: what \S+ leaves.
DropNonSpace(s) ==
    IF s = <<>> \/ Head(s) \in Whitespace THEN s ELSE DropNonSpace(Tail(s))

HasPrefix(s, p) == Len(s) >= Len(p) /\ SubSeq(s, 1, Len(p)) = p

\* The pattern http\S+|www\.\S+ matches at the start of s.
UrlAt(s) ==
    \/ HasPrefix(s, <<"h", "t", "t", "p">>) /\ Len(s) >= 5 /\ s[5] \notin Whitespace
    \/ HasPrefix(s, <<"w", "w", "w", ".">>) /\ Len(s) >= 5 /\ s[5] \notin Whitespace

RECURSIVE StripUrls(_)
\* re.sub(r'http\S+|www\.\S+', '', s): leftmost matches, each to the next
\* whitespace, removed.
StripUrls(s) ==
    IF s = <<>> THEN <<>>
    ELSE IF UrlAt(s) THEN StripUrls(DropNonSpace(s))
    ELSE <<Head(s)>> \o StripUrls(Tail(s))

RECURSIVE MapLower(_)
MapLower(s) == IF s = <<>> THEN <<>> ELSE <<Lower(Head(s))>> \o MapLower(Tail(s))

RECURSIVE StripNonAscii(_)
\* re.sub(r'[^\x00-\x7f]', '', s)
StripNonAscii(s) ==
    IF s = <<>> THEN <<>>
    ELSE IF Head(s) \in NonAscii THEN StripNonAscii(Tail(s))
    ELSE <<Head(s)>> \o StripNonAscii(Tail(s))

RECURSIVE ReplacePunct(_)
\* re.sub(r'[\-\*•–—:]', ' ', s)
ReplacePunct(s) ==
    IF s = <<>> THEN <<>>
    ELSE <<IF Head(s) \in Replaced THEN " " ELSE Head(s)>> \o ReplacePunct(Tail(s))

RECURSIVE CollapseRuns(_, _)
\* re.sub(r'[class]+', ' ', s): every maximal run of characters of the class
\* becomes one space.
CollapseRuns(s, class) ==
    IF s = <<>> THEN <<>>
    ELSE IF Head(s) \in class
         THEN IF Len(s) >= 2 /\ s[2] \in class
              THEN CollapseRuns(Tail(s), class)
              ELSE <<" ">> \o CollapseRuns(Tail(s), class)
    ELSE <<Head(s)>> \o CollapseRuns(Tail(s), class)

RECURSIVE LStrip(_)
LStrip(s) == IF s # <<>> /\ Head(s) \in Whitespace THEN LStrip(Tail(s)) ELSE s

RECURSIVE RStrip(_)
RStrip(s) ==
    IF s # <<>> /\ s[Len(s)] \in Whitespace THEN RStrip(SubSeq(s, 1, Len(s) - 1)) ELSE s

\* str.strip()
Strip(s) == RStrip(LStrip(s))

\* A text is a sequence; anything else (None) is not a str.
IsStr(text) == text # None

normalize_text(text) ==
    IF ~IsStr(text) THEN <<>>
    ELSE LET t1 == MapLower(text)
             t2 == StripUrls(t1)
             t3 == StripNonAscii(t2)
             t4 == ReplacePunct(t3)
             t5 == CollapseRuns(t4, Newlines)
         IN  Strip(CollapseRuns(t5, Whitespace))

-----------------------------------------------------------------------------
(* get_confidence_tier, src/main.py:83-91.  A score is kept in hundredths: *)
(* round(sim * 100, 2) has two decimals.                                    *)

Scale == 100
Tier1Min == 80
Tier2Min == 60
Tier3Min == 40

\* As get_confidence_tier, with the first bound exclusive.
get_confidence_tier_exclusive(score) ==
    IF score > Tier1Min * Scale
    THEN [label |-> "Tier 1 (Excellent Match)", style |-> "bg-success"]
    ELSE IF score >= Tier2Min * Scale
    THEN [label |-> "Tier 2 (Strong Fit)", style |-> "bg-primary"]
    ELSE IF score >= Tier3Min * Scale
    THEN [label |-> "Tier 3 (Average Fit)", style |-> "bg-warning text-dark"]
    ELSE [label |-> "Tier 4 (Low Fit)", style |-> "bg-danger"]

get_confidence_tier(score) ==
    IF score >= Tier1Min * Scale
    THEN [label |-> "Tier 1 (Excellent Match)", style |-> "bg-success"]
    ELSE IF score >= Tier2Min * Scale
    THEN [label |-> "Tier 2 (Strong Fit)", style |-> "bg-primary"]
    ELSE IF score >= Tier3Min * Scale
    THEN [label |-> "Tier 3 (Average Fit)", style |-> "bg-warning text-dark"]
    ELSE [label |-> "Tier 4 (Low Fit)", style |-> "bg-danger"]

-----------------------------------------------------------------------------
(* Text extraction, src/main.py:16-55.  The content of a file is a record: *)
(* kind "pdf" with its pages (a page without text is the empty text),      *)
(* kind "docx" or "text" with its text, kind "binary" for bytes that no    *)
(* extractor can read, kind "absent" for no file at that path.             *)

NoFile == [kind |-> "absent", text |-> <<>>, pages |-> <<>>]

RECURSIVE PdfText(_)
\* Lines 20-23: every page with text adds its text and a newline.
PdfText(pages) ==
    IF pages = <<>> THEN <<>>
    ELSE (IF Head(pages) # <<>> THEN Head(pages) \o <<"\n">> ELSE <<>>)
         \o PdfText(Tail(pages))

\* pdfplumber.open raises on a missing or unreadable file; the except
\* clause of line 25 returns "".
extract_text_from_pdf(dir, file_path) ==
    LET c == dir[file_path]
    IN  IF c.kind = "pdf" THEN PdfText(c.pages) ELSE <<>>

\* docx2txt.process raises on a missing or unreadable file (line 33).
extract_text_from_docx(dir, file_path) ==
    LET c == dir[file_path]
    IN  IF c.kind = "docx" THEN c.text ELSE <<>>

\* open/read as UTF-8 raises on a missing or undecodable file (line 42).
extract_text_from_txt(dir, file_path) ==
    LET c == dir[file_path]
    IN  IF c.kind = "text" THEN c.text ELSE <<>>

\* str.lower() on the extension of a path.
LowerExt(ext) ==
    CASE ext = ".PDF" -> ".pdf"
      [] ext = ".TXT" -> ".txt"
      [] ext = ".DOCX" -> ".docx"
      [] OTHER -> ext

\* A filename is [stem, ext]; the path ends with its extension.
extract_text(dir, file_path) ==
    IF LowerExt(file_path.ext) = ".pdf" THEN extract_text_from_pdf(dir, file_path)
    ELSE IF LowerExt(file_path.ext) = ".docx" THEN extract_text_from_docx(dir, file_path)
    ELSE IF LowerExt(file_path.ext) = ".txt" THEN extract_text_from_txt(dir, file_path)
    ELSE <<>>

-----------------------------------------------------------------------------
(* The vectorizer and the similarity, src/main.py:128-134.                  *)
(* TfidfVectorizer(stop_words=...) splits a document into the tokens of two *)
(* or more word characters, drops the stop words, and raises ValueError     *)
(* when no term is left in any document.  Weights are tf * idf with         *)
(* idf = ln((1 + n) / (1 + df)) + 1, kept here in hundredths; the cosine is *)
(* kept in ten-thousandths.                                                 *)

custom_words ==
    { <<"s","k","i","l","l","s">>,
      <<"e","x","p","e","r","i","e","n","c","e">>,
      <<"c","a","n","d","i","d","a","t","e">>,
      <<"j","o","b">>,
      <<"r","e","s","p","o","n","s","i","b","i","l","i","t","i","e","s">> }

\* Members of sklearn's ENGLISH_STOP_WORDS.
ENGLISH_STOP_WORDS ==
    { <<"t","h","e">>, <<"a","n","d">>, <<"o","f">>, <<"w","i","t","h">> }

combined_stopwords == ENGLISH_STOP_WORDS \cup custom_words

\* The characters that are not \w among those the model uses.
NonWord == Whitespace \cup Replaced \cup {".", "/", ","}

RECURSIVE TakeWord(_)
TakeWord(s) ==
    IF s = <<>> \/ Head(s) \in NonWord THEN <<>> ELSE <<Head(s)>> \o TakeWord(Tail(s))

RECURSIVE Tokens(_)
\* The matches of the token pattern \b\w\w+\b, in order.
Tokens(s) ==
    IF s = <<>> THEN <<>>
    ELSE IF Head(s) \in NonWord THEN Tokens(Tail(s))
    ELSE LET w == TakeWord(s)
             rest == SubSeq(s, Len(w) + 1, Len(s))
         IN  (IF Len(w) >= 2 THEN <<w>> ELSE <<>>) \o Tokens(rest)

\* The analyzer of the vectorizer: the tokens that are no stop words.
Analyze(doc) ==
    LET Kept(t) == t \notin combined_stopwords
    IN  SelectSeq(Tokens(doc), Kept)

Range(s) == {s[k] : k \in DOMAIN s}

Vocabulary(docs) == UNION {Range(Analyze(docs[k])) : k \in DOMAIN docs}

RECURSIVE Sum(_, _)
Sum(f, S) ==
    IF S = {} THEN 0
    ELSE LET x == CHOOSE y \in S : TRUE IN f[x] + Sum(f, S \ {x})

\* 100 * ln(k), k = 1..12.
Ln100 == <<0, 69, 110, 139, 161, 179, 195, 208, 220, 230, 240, 248>>

Tf(terms, t) == Cardinality({k \in DOMAIN terms : terms[k] = t})

Df(docs, t) == Cardinality({k \in DOMAIN docs : t \in Range(Analyze(docs[k]))})

Idf(docs, t) == Ln100[1 + Len(docs)] - Ln100[1 + Df(docs, t)] + 100

\* vectorizer.fit_transform(all_docs), line 133: the vector of every
\* document over the vocabulary of all of them.  (The vectors are left
\* unnormalized: the cosine divides by the norms.)
fit_transform(docs) ==
    LET vocab == Vocabulary(docs)
    IN  [k \in DOMAIN docs |->
            [t \in vocab |-> Tf(Analyze(docs[k]), t) * Idf(docs, t)]]

\* A vectorizer that accepts an empty vocabulary.
EmptyVocabularyAccepted(docs) == FALSE

\* fit_transform raises ValueError("empty vocabulary; ...").
EmptyVocabulary(docs) == Vocabulary(docs) = {}

Dot(x, y) == Sum([t \in DOMAIN x |-> x[t] * y[t]], DOMAIN x)

RECURSIVE ISqrtIn(_, _, _)
ISqrtIn(x, lo, hi) ==
    IF lo >= hi THEN lo
    ELSE LET mid == (lo + hi + 1) \div 2
         IN  IF mid * mid <= x THEN ISqrtIn(x, mid, hi) ELSE ISqrtIn(x, lo, mid - 1)

SimScale == Scale * Scale

\* The integer square root of x, for x up to 4 * SimScale^2.
ISqrt(x) == ISqrtIn(x, 0, 2 * SimScale)

\* The cosine of x and y in units of 1 / SimScale; 0 when either is the
\* zero vector.
Cosine(x, y) ==
    LET xy == Dot(x, y)
        xx == Dot(x, x)
        yy == Dot(y, y)
    IN  IF xx = 0 \/ yy = 0 \/ xy = 0 THEN 0
        ELSE ISqrt(((xy * SimScale) \div xx) * ((xy * SimScale) \div yy))

\* cosine_similarity(vectors[0:1], vectors[1:]).flatten(), line 134.
cosine_similarity(vectors) ==
    [k \in 1..(Len(vectors) - 1) |-> Cosine(vectors[1], vectors[k + 1])]

\* round(sim * 100, 2), line 138, in hundredths.
RoundScore(sim) == (2 * sim * 100 * Scale + SimScale) \div (2 * SimScale)

-----------------------------------------------------------------------------
(* Ranking, src/main.py:136-157 *)

TopN == 5

\* Lines 137-145: one result per similarity, named by position.
BuildResults(uploaded_names, similarities) ==
    [k \in DOMAIN similarities |->
        LET score == RoundScore(similarities[k])
            tier == get_confidence_tier(score)
        IN  [name |-> uploaded_names[k], score |-> score,
             tier_label |-> tier.label, tier_style |-> tier.style]]

RECURSIVE InsertDesc(_, _)
\* x goes behind every element whose score is at least its own.
InsertDesc(s, x) ==
    IF s = <<>> THEN <<x>>
    ELSE IF Head(s).score >= x.score THEN <<Head(s)>> \o InsertDesc(Tail(s), x)
    ELSE <<x>> \o s

RECURSIVE SortFrom(_, _)
SortFrom(sorted, rest) ==
    IF rest = <<>> THEN sorted
    ELSE SortFrom(InsertDesc(sorted, Head(rest)), Tail(rest))

RECURSIVE InsertDescFirst(_, _)
\* x goes before the elements whose score is its own.
InsertDescFirst(s, x) ==
    IF s = <<>> THEN <<x>>
    ELSE IF Head(s).score > x.score THEN <<Head(s)>> \o InsertDescFirst(Tail(s), x)
    ELSE <<x>> \o s

RECURSIVE SortFromFirst(_, _)
SortFromFirst(sorted, rest) ==
    IF rest = <<>> THEN sorted
    ELSE SortFromFirst(InsertDescFirst(sorted, Head(rest)), Tail(rest))

\* A descending sort that is not stable: an ascending sort, reversed.
SortByScoreDescUnstable(results) == SortFromFirst(<<>>, results)

\* results.sort(key=lambda x: x['score'], reverse=True), line 147: list.sort
\* is stable, also with reverse=True.
SortByScoreDesc(results) == SortFrom(<<>>, results)

\* Line 149.
ChartData(results) ==
    [k \in DOMAIN results |-> [name |-> results[k].name, score |-> results[k].score]]

\* The whole list, not its first five.
DisplayAll(results) == results

\* results[:5], line 155.
Display(results) ==
    SubSeq(results, 1, IF Len(results) < TopN THEN Len(results) ELSE TopN)

-----------------------------------------------------------------------------
(* The requests.  An upload is [filename, content]; a filename is          *)
(* [stem, ext], and the upload of a form without a chosen file has the     *)
(* empty filename.                                                          *)

EmptyFilename == [stem |-> "", ext |-> ""]

TextGoDb == <<"g", "o", " ", "d", "b">>
TextGo == <<"G", "o">>
TextUi == <<"u", "i">>
TextTheJob == <<"t", "h", "e", " ", "j", "o", "b">>

TextFile(t) == [kind |-> "text", text |-> t, pages |-> <<>>]
PdfFile(pages) == [kind |-> "pdf", text |-> <<>>, pages |-> pages]
BinaryFile == [kind |-> "binary", text |-> <<>>, pages |-> <<>>]

UploadA == [filename |-> [stem |-> "a", ext |-> ".txt"], content |-> TextFile(TextGoDb)]
UploadB == [filename |-> [stem |-> "b", ext |-> ".PDF"], content |-> PdfFile(<<TextGo, <<>> >>)]
UploadC == [filename |-> [stem |-> "c", ext |-> ".docx"], content |-> BinaryFile]
UploadD == [filename |-> [stem |-> "d", ext |-> ".bin"], content |-> TextFile(TextGoDb)]
UploadE == [filename |-> EmptyFilename, content |-> NoFile]
\* The same filename as UploadA, another text.
UploadA2 == [filename |-> [stem |-> "a", ext |-> ".txt"], content |-> TextFile(TextUi)]

Uploads == {UploadA, UploadB, UploadC, UploadD, UploadE}
LongUploads == {UploadA, UploadB}
ThreadedUploads == {UploadA, UploadA2}

SeqsUpTo(S, n) == UNION {[1..k -> S] : k \in 0..n}

\* The batches of the serial server: every batch of up to MaxFiles uploads,
\* and the batches of MaxLong uploads of two kinds.
Batches == SeqsUpTo(Uploads, MaxFiles) \cup [1..MaxLong -> LongUploads]

\* request.form.get('job_description'): None when the field is missing.
JobDescriptions == {None, <<>>, TextGoDb, TextTheJob}

\* One file under the same name in every batch, behind an empty upload or not.
ThreadedBatches ==
    {<<u>> : u \in ThreadedUploads} \cup {<<UploadE, u>> : u \in ThreadedUploads}
ThreadedJobDescriptions == {TextGoDb}

Filenames == {u.filename : u \in Uploads \cup ThreadedUploads} \ {EmptyFilename}

RequestIds == {1, 2}

JD_ERROR == "Please paste a job description to begin matching."
RESUME_ERROR == "Please upload at least one resume file."

NoResponse ==
    [status |-> "none", error_message |-> "", raised |-> "",
     results |-> <<>>, chart_data |-> <<>>]

ErrorPage(msg) == [NoResponse EXCEPT !.status = "rendered", !.error_message = msg]

Raised(exc) == [NoResponse EXCEPT !.status = "raised", !.raised = exc]

IdleRequest ==
    [pc |-> "idle", job_description |-> None, resume_files |-> <<>>, i |-> 0,
     resumes_text |-> <<>>, uploaded_names |-> <<>>, response |-> NoResponse]

IdleIndex == [pc |-> "idle", pending |-> {}, failed |-> {}, response |-> NoResponse]

\* Python truthiness of a form value: None and "" are falsy.
Truthy(text) == text # None /\ text # <<>>

AnyFilename(files) == \E k \in DOMAIN files : files[k].filename # EmptyFilename

\* POST /matcher arrives with its form.
Post(r, jds, batches) ==
    /\ req[r].pc = "idle"
    /\ \E jd \in jds, files \in batches :
          req' = [req EXCEPT ![r] = [IdleRequest EXCEPT
                     !.pc = "validate", !.job_description = jd, !.resume_files = files]]
    /\ UNCHANGED <<fs, idx, norm_in, norm_out, norm_again, norm_pc, tier_in, tier_out>>

\* As Validate, without the test of the filenames (any(f.filename ...)).
ValidateListOnly(r) ==
    /\ req[r].pc = "validate"
    /\ req' = [req EXCEPT ![r] =
          IF ~Truthy(req[r].job_description)
          THEN [@ EXCEPT !.pc = "done", !.response = ErrorPage(JD_ERROR)]
          ELSE IF req[r].resume_files = <<>>
          THEN [@ EXCEPT !.pc = "done", !.response = ErrorPage(RESUME_ERROR)]
          ELSE [@ EXCEPT !.pc = "loop", !.i = 1]]
    /\ UNCHANGED <<fs, idx, norm_in, norm_out, norm_again, norm_pc, tier_in, tier_out>>

\* Lines 105-111.
Validate(r) ==
    /\ req[r].pc = "validate"
    /\ req' = [req EXCEPT ![r] =
          IF ~Truthy(req[r].job_description)
          THEN [@ EXCEPT !.pc = "done", !.response = ErrorPage(JD_ERROR)]
          ELSE IF req[r].resume_files = <<>> \/ ~AnyFilename(req[r].resume_files)
          THEN [@ EXCEPT !.pc = "done", !.response = ErrorPage(RESUME_ERROR)]
          ELSE [@ EXCEPT !.pc = "loop", !.i = 1]]
    /\ UNCHANGED <<fs, idx, norm_in, norm_out, norm_again, norm_pc, tier_in, tier_out>>

\* Lines 116-117: an upload without a filename is passed over.
SkipUnnamed(r) ==
    /\ req[r].pc = "loop"
    /\ req[r].i <= Len(req[r].resume_files)
    /\ req[r].resume_files[req[r].i].filename = EmptyFilename
    /\ req' = [req EXCEPT ![r].i = @ + 1]
    /\ UNCHANGED <<fs, idx, norm_in, norm_out, norm_again, norm_pc, tier_in, tier_out>>

\* Lines 118-120: resume_file.save(file_path) writes the file, or raises (no
\* folder, no space, no permission), and nothing catches it.
SaveFile(r) ==
    /\ req[r].pc = "loop"
    /\ req[r].i <= Len(req[r].resume_files)
    /\ req[r].resume_files[req[r].i].filename # EmptyFilename
    /\ LET f == req[r].resume_files[req[r].i]
       IN  \/ /\ fs' = [fs EXCEPT ![f.filename] = f.content]
              /\ req' = [req EXCEPT ![r].uploaded_names = Append(@, f.filename),
                                    ![r].pc = "extract"]
           \/ /\ req' = [req EXCEPT ![r].pc = "done", ![r].response = Raised("OSError")]
              /\ UNCHANGED fs
    /\ UNCHANGED <<idx, norm_in, norm_out, norm_again, norm_pc, tier_in, tier_out>>

\* Lines 122-124.
Extract(r) ==
    /\ req[r].pc = "extract"
    /\ LET f == req[r].resume_files[req[r].i]
           extracted == extract_text(fs, f.filename)
           cleaned == normalize_text(extracted)
       IN  req' = [req EXCEPT ![r].resumes_text = Append(@, cleaned),
                               ![r].i = @ + 1,
                               ![r].pc = "loop"]
    /\ UNCHANGED <<fs, idx, norm_in, norm_out, norm_again, norm_pc, tier_in, tier_out>>

\* Lines 126-157, given the job description and the texts of the loop.
Respond(job_description, resumes_text, uploaded_names) ==
    LET normalized_jd == normalize_text(job_description)
        all_docs == <<normalized_jd>> \o resumes_text
    IN  IF EmptyVocabulary(all_docs) THEN Raised("ValueError")
        ELSE LET vectors == fit_transform(all_docs)
                 similarities == cosine_similarity(vectors)
                 results == SortByScoreDesc(BuildResults(uploaded_names, similarities))
             IN  [NoResponse EXCEPT !.status = "rendered",
                                    !.results = Display(results),
                                    !.chart_data = ChartData(results)]

Score(r) ==
    /\ req[r].pc = "loop"
    /\ req[r].i > Len(req[r].resume_files)
    /\ req' = [req EXCEPT ![r].pc = "done",
                          ![r].response = Respond(req[r].job_description,
                                                  req[r].resumes_text,
                                                  req[r].uploaded_names)]
    /\ UNCHANGED <<fs, idx, norm_in, norm_out, norm_again, norm_pc, tier_in, tier_out>>

\* The response is sent; the worker takes the next request.
Return(r) ==
    /\ req[r].pc = "done"
    /\ req' = [req EXCEPT ![r] = IdleRequest]
    /\ UNCHANGED <<fs, idx, norm_in, norm_out, norm_again, norm_pc, tier_in, tier_out>>

-----------------------------------------------------------------------------
(* GET / and cleanup_uploads, src/main.py:72-79 and 95-98 *)

IndexGet ==
    /\ idx.pc = "idle"
    /\ idx' = [IdleIndex EXCEPT !.pc = "list"]
    /\ UNCHANGED <<fs, req, norm_in, norm_out, norm_again, norm_pc, tier_in, tier_out>>

\* Line 73: os.listdir(folder) names the files of the folder, or raises (no
\* such folder: only the __main__ block creates it), outside the try.
IndexList ==
    /\ idx.pc = "list"
    /\ \/ idx' = [idx EXCEPT !.pc = "unlink",
                             !.pending = {n \in Filenames : fs[n] # NoFile}]
       \/ idx' = [idx EXCEPT !.pc = "done", !.response = Raised("FileNotFoundError")]
    /\ UNCHANGED <<fs, req, norm_in, norm_out, norm_again, norm_pc, tier_in, tier_out>>

\* Lines 74-79, one file of the listing: a file that is still there is
\* unlinked, or os.unlink raises and the failure is printed.
IndexUnlink ==
    /\ idx.pc = "unlink"
    /\ \E n \in idx.pending :
          \/ /\ fs' = [fs EXCEPT ![n] = NoFile]
             /\ idx' = [idx EXCEPT !.pending = @ \ {n}]
          \/ /\ fs[n] # NoFile
             /\ idx' = [idx EXCEPT !.pending = @ \ {n}, !.failed = @ \cup {n}]
             /\ UNCHANGED fs
    /\ UNCHANGED <<req, norm_in, norm_out, norm_again, norm_pc, tier_in, tier_out>>

\* Line 98.
IndexRender ==
    /\ idx.pc = "unlink"
    /\ idx.pending = {}
    /\ idx' = [idx EXCEPT !.pc = "done", !.response = [NoResponse EXCEPT !.status = "rendered"]]
    /\ UNCHANGED <<fs, req, norm_in, norm_out, norm_again, norm_pc, tier_in, tier_out>>

IndexReturn ==
    /\ idx.pc = "done"
    /\ idx' = IdleIndex
    /\ UNCHANGED <<fs, req, norm_in, norm_out, norm_again, norm_pc, tier_in, tier_out>>

-----------------------------------------------------------------------------
(* Specifications *)

NoTier == [label |-> "", style |-> ""]

InitServer ==
    /\ fs = [n \in Filenames |-> NoFile]
    /\ req = [r \in RequestIds |-> IdleRequest]
    /\ idx = IdleIndex

InitFunctionsIdle ==
    /\ norm_in = <<>>
    /\ norm_out = <<>>
    /\ norm_again = <<>>
    /\ norm_pc = "off"
    /\ tier_in = 0
    /\ tier_out = NoTier

Init == InitServer /\ InitFunctionsIdle

NoRequest == idx.pc = "idle" /\ \A r \in RequestIds : req[r].pc = "idle"

\* A server that handles one request at a time, start to finish.
Next ==
    \/ NoRequest /\ Post(1, JobDescriptions, Batches)
    \/ Validate(1)
    \/ SkipUnnamed(1)
    \/ SaveFile(1)
    \/ Extract(1)
    \/ Score(1)
    \/ Return(1)
    \/ NoRequest /\ IndexGet
    \/ IndexList
    \/ IndexUnlink
    \/ IndexRender
    \/ IndexReturn

Spec == Init /\ [][Next]_vars

\* A threaded server (Flask's development server, app.run of line 164): two
\* /matcher requests and a / request interleave step by step.
NextThreaded ==
    \/ \E r \in RequestIds : Post(r, ThreadedJobDescriptions, ThreadedBatches)
    \/ \E r \in RequestIds : Validate(r)
    \/ \E r \in RequestIds : SkipUnnamed(r)
    \/ \E r \in RequestIds : SaveFile(r)
    \/ \E r \in RequestIds : Extract(r)
    \/ \E r \in RequestIds : Score(r)
    \/ \E r \in RequestIds : Return(r)
    \/ IndexGet
    \/ IndexList
    \/ IndexUnlink
    \/ IndexRender
    \/ IndexReturn

SpecThreaded == Init /\ [][NextThreaded]_vars

\* The normalizer applied to every text of up to MaxLen characters, twice.
InitNorm ==
    /\ InitServer
    /\ norm_in = <<>>
    /\ norm_out = <<>>
    /\ norm_again = <<>>
    /\ norm_pc = "start"
    /\ tier_in = 0
    /\ tier_out = NoTier

\* The input grows by one character.
Type ==
    /\ norm_pc = "start"
    /\ Len(norm_in) < MaxLen
    /\ \E c \in Alphabet : norm_in' = Append(norm_in, c)
    /\ UNCHANGED <<fs, req, idx, norm_out, norm_again, norm_pc, tier_in, tier_out>>

Normalize ==
    /\ norm_pc = "start"
    /\ norm_out' = normalize_text(norm_in)
    /\ norm_pc' = "once"
    /\ UNCHANGED <<fs, req, idx, norm_in, norm_again, tier_in, tier_out>>

NormalizeAgain ==
    /\ norm_pc = "once"
    /\ norm_again' = normalize_text(norm_out)
    /\ norm_pc' = "twice"
    /\ UNCHANGED <<fs, req, idx, norm_in, norm_out, tier_in, tier_out>>

NextNorm == Type \/ Normalize \/ NormalizeAgain

SpecNorm == InitNorm /\ [][NextNorm]_vars

\* The tier of every score from 0 to MaxScore, in steps of 0.01.
InitTier ==
    /\ InitServer
    /\ norm_in = <<>>
    /\ norm_out = <<>>
    /\ norm_again = <<>>
    /\ norm_pc = "off"
    /\ tier_in \in 0..(MaxScore * Scale)
    /\ tier_out = NoTier

Classify ==
    /\ tier_out = NoTier
    /\ tier_out' = get_confidence_tier(tier_in)
    /\ UNCHANGED <<fs, req, idx, norm_in, norm_out, norm_again, norm_pc, tier_in>>

NextTier == Classify

SpecTier == InitTier /\ [][NextTier]_vars

-----------------------------------------------------------------------------
(* Properties *)

\* C1: get_confidence_tier gives every score exactly one of the four
\* labels: Tier 1 iff score >= 80, Tier 2 iff 60 <= score < 80, Tier 3 iff
\* 40 <= score < 60, Tier 4 iff score < 40 (scores in hundredths).
C1_TierPartition ==
    tier_out # NoTier =>
        /\ (tier_out.label = "Tier 1 (Excellent Match)") <=> (tier_in >= 8000)
        /\ (tier_out.label = "Tier 2 (Strong Fit)") <=> (tier_in >= 6000 /\ tier_in < 8000)
        /\ (tier_out.label = "Tier 3 (Average Fit)") <=> (tier_in >= 4000 /\ tier_in < 6000)
        /\ (tier_out.label = "Tier 4 (Low Fit)") <=> (tier_in < 4000)
        /\ tier_out.label \in {"Tier 1 (Excellent Match)", "Tier 2 (Strong Fit)",
                               "Tier 3 (Average Fit)", "Tier 4 (Low Fit)"}

\* The score 80.00 has been classified, as Tier 1.
C1_Witness == tier_in = 8000 /\ tier_out.label = "Tier 1 (Excellent Match)"

\* C2: normalize_text is idempotent: normalizing its output gives the
\* output back.
C2_Idempotent == norm_pc = "twice" => norm_again = norm_out

\* The pattern http\S+|www\.\S+ matches somewhere in s.
ContainsUrl(s) == \E k \in 1..Len(s) : UrlAt(SubSeq(s, k, Len(s)))

\* C3: the output of normalize_text contains no match of the URL pattern.
C3_NoUrlInOutput == norm_pc \in {"once", "twice"} => ~ContainsUrl(norm_out)

\* The request r ended with the results page.
ResultsPage(r) ==
    /\ req[r].pc = "done"
    /\ req[r].response.status = "rendered"
    /\ req[r].response.error_message = ""

\* The results of request r before the sort, in upload order.
Unsorted(r) ==
    BuildResults(req[r].uploaded_names,
                 cosine_similarity(fit_transform(
                     <<normalize_text(req[r].job_description)>> \o req[r].resumes_text)))

NonIncreasing(s) == \A i, j \in DOMAIN s : i < j => s[i].score >= s[j].score

\* The names of the entries of s whose score is v, in order.
NamesAt(s, v) ==
    LET Hit(e) == e.score = v
        hits == SelectSeq(s, Hit)
    IN  [k \in DOMAIN hits |-> hits[k].name]

IsPrefix(a, b) == Len(a) <= Len(b) /\ a = SubSeq(b, 1, Len(a))

\* C4: the chart series and the displayed list are sorted by score, highest
\* first, and resumes of equal score keep their upload order.
C4_SortedStable ==
    \A r \in RequestIds : ResultsPage(r) =>
        LET chart == req[r].response.chart_data
            shown == req[r].response.results
            before == Unsorted(r)
        IN  /\ NonIncreasing(chart)
            /\ NonIncreasing(shown)
            /\ \A k \in DOMAIN before :
                  /\ NamesAt(chart, before[k].score) = NamesAt(before, before[k].score)
                  /\ IsPrefix(NamesAt(shown, before[k].score),
                              NamesAt(before, before[k].score))

\* A results page whose sort moved a resume ahead of two resumes of equal
\* score and different names.
C4_Witness ==
    \E r \in RequestIds :
        /\ ResultsPage(r)
        /\ \E i, j \in DOMAIN req[r].response.chart_data :
              /\ i < j
              /\ req[r].response.chart_data[i].score = req[r].response.chart_data[j].score
              /\ req[r].response.chart_data[i].name # req[r].response.chart_data[j].name
        /\ \E a, b \in DOMAIN req[r].uploaded_names :
              a < b /\ Unsorted(r)[a].score < Unsorted(r)[b].score

\* The request r is about to be validated and fails the validation.
Invalid(r) ==
    /\ req[r].pc = "validate"
    /\ \/ ~Truthy(req[r].job_description)
       \/ ~AnyFilename(req[r].resume_files)

\* C5: a request without a job description gets the job-description
\* message, one with a job description and no named upload gets the
\* other message, and in that step no file is written, no text extracted
\* and no result produced.
C5_ValidationAborts ==
    [][\A r \in RequestIds : Invalid(r) =>
          /\ fs' = fs
          /\ req'[r] = [req[r] EXCEPT
                !.pc = "done",
                !.response = ErrorPage(IF ~Truthy(req[r].job_description)
                                       THEN "Please paste a job description to begin matching."
                                       ELSE "Please upload at least one resume file.")]
          /\ req'[r].uploaded_names = <<>>
          /\ req'[r].resumes_text = <<>>
          /\ req'[r].response.results = <<>>
          /\ req'[r].response.chart_data = <<>>]_vars

\* A request with a job description and uploads, none of them named, ended
\* with the resume message.
C5_Witness ==
    \E r \in RequestIds :
        /\ req[r].pc = "done"
        /\ Truthy(req[r].job_description)
        /\ req[r].resume_files # <<>>
        /\ req[r].response.error_message = "Please upload at least one resume file."

\* The extraction of upload u gives no text: its extension is not
\* supported, or its extractor raises.
FailsExtraction(u) ==
    /\ u.filename # EmptyFilename
    /\ \/ LowerExt(u.filename.ext) \notin {".pdf", ".docx", ".txt"}
       \/ u.content.kind = "binary"

PassedValidation(r) ==
    Truthy(req[r].job_description) /\ AnyFilename(req[r].resume_files)

\* C6: a request that passed validation and holds a resume whose
\* extraction fails ends with a result list, in which that resume has its
\* own filename and the score 0 and every named upload has an entry.
C6_ExtractionIsolated ==
    \A r \in RequestIds :
        ( /\ req[r].pc = "done"
          /\ PassedValidation(r)
          /\ \E k \in DOMAIN req[r].resume_files : FailsExtraction(req[r].resume_files[k]) )
        => /\ ResultsPage(r)
           /\ \A k \in DOMAIN req[r].resume_files :
                 FailsExtraction(req[r].resume_files[k]) =>
                    \E j \in DOMAIN req[r].response.chart_data :
                       /\ req[r].response.chart_data[j].name = req[r].resume_files[k].filename
                       /\ req[r].response.chart_data[j].score = 0
           /\ Len(req[r].response.chart_data) = Len(req[r].uploaded_names)

\* C7: no request ends with the exception of a failed save, and the index
\* request does not end with the exception of a failed listing.
C7_FilesystemFailureContinues ==
    /\ \A r \in RequestIds : req[r].response.raised # "OSError"
    /\ idx.response.raised # "FileNotFoundError"

\* The job description and every text of the request r have no term left
\* after the stop words are dropped.
Degenerate(r) ==
    /\ Analyze(normalize_text(req[r].job_description)) = <<>>
    /\ \A k \in DOMAIN req[r].resumes_text : Analyze(req[r].resumes_text[k]) = <<>>

\* The request r went through the whole loop.
Scored(r) ==
    /\ req[r].pc = "done"
    /\ PassedValidation(r)
    /\ req[r].response.raised # "OSError"

\* C8: a request whose documents have no term outside the stop words ends
\* with the exception of the vectorizer, and with no result list.
C8_DegenerateFails ==
    \A r \in RequestIds : (Scored(r) /\ Degenerate(r)) =>
        /\ req[r].response.status = "raised"
        /\ req[r].response.raised = "ValueError"
        /\ req[r].response.results = <<>>
        /\ req[r].response.chart_data = <<>>

\* A request with a job description of stop words and a named upload ended
\* with the exception.
C8_Witness ==
    \E r \in RequestIds :
        /\ Scored(r)
        /\ Degenerate(r)
        /\ req[r].uploaded_names # <<>>
        /\ req[r].job_description = TextTheJob
        /\ req[r].response.raised = "ValueError"

\* The text of upload u when nothing but u is in the folder.
OwnText(u) ==
    normalize_text(extract_text([n \in Filenames |-> u.content], u.filename))

Count(s, e) == Cardinality({k \in DOMAIN s : s[k] = e})

C10_OwnFileAtExtract ==
    \A r \in RequestIds : req[r].pc = "extract" =>
        fs[req[r].resume_files[req[r].i].filename] = req[r].resume_files[req[r].i].content

=============================================================================
